---- MODULE Spec2Model ----
(***************************************************************************)
(* Playback orchestration and prefetch cache of the Storyteller reader     *)
(* (src/App.tsx, second revision of the component, lines 482-1230).        *)
(*                                                                         *)
(* Specifications over the same variables:                                 *)
(*   SpecCache   the AudioLRUCache class driven by arbitrary get / set /   *)
(*               has / delete / clear calls;                               *)
(*   Spec        the App component with a document installed: user         *)
(*               intents, the playback effect and its 10 ms timer, the     *)
(*               50 ms seek timers, the synthesis promises and the audio   *)
(*               device;                                                   *)
(*   SpecStop    Spec with one more user intent, google engine;            *)
(*   SpecDoc     Spec with the document operations: upload, translation,   *)
(*               recording; SpecToggle adds every branch of togglePlay,    *)
(*               SpecRecord one more user intent;                          *)
(*   SpecPlay    a document played through without user input, under weak  *)
(*               fairness;                                                 *)
(*   SpecNav     Spec with chapter navigation;                             *)
(*   SpecDevice  Spec with an output device that reports errors;           *)
(*   SpecReparse Spec with the source-language selector and its silent     *)
(*               re-parse of the current file;                             *)
(*   SpecStuck   a synthesis backend that hangs for the first sentence,    *)
(*               under weak fairness of the timers and the other calls.    *)
(*                                                                         *)
(* A handler runs to completion or to its next `await` in one step (one    *)
(* JavaScript task with its microtasks, and the React render and effects   *)
(* that follow it).                                                        *)
(***************************************************************************)
EXTENDS Integers, Sequences, FiniteSets, TLC

\* ------------------------------------------------------------------ bounds
MaxSegs == 3        \* longest document produced by parsePdf
MaxOrphans == 2     \* pending promises that are no longer in the cache
MaxWaiters == 2     \* playSentence invocations suspended at an await
MaxSources == 2     \* sound sources alive at once
MaxSeeks == 1       \* pending 50 ms seek timers
MaxEnded == 1       \* queued `ended` events of stopped buffer sources
MaxIntents == 2     \* user intents (clicks, settings changes) in one behaviour
MaxFlight == 2      \* document operations (parse, translate, transcribe) in flight
MaxCapacity == 2    \* SpecCache: largest constructor argument
MaxKey == 2         \* SpecCache: keys are 0..MaxKey
MaxOps == 4         \* SpecCache: operations logged since the last clear

AppCapacity == 50   \* useRef(new AudioLRUCache(50))
None == -2          \* no timer armed

VARIABLES
    segs,           \* pdfData.textSegments: 1 = text, 0 = empty after trim()
    flight,         \* document operations in flight (parsePdf, translateBatch, transcribeAudio)
    playback,       \* PlaybackState
    engine,         \* settings.engine
    openaiKey,      \* settings.openaiKey is non-empty
    activeIndexRef, \* activeIndexRef.current
    cache,          \* AudioLRUCache.cache: the Map, in insertion order
    capacity,       \* AudioLRUCache.capacity
    orphans,        \* pending promises the cache no longer holds
    sources,        \* sound sources that are sounding
    endedQ,         \* `ended` events queued by stop() of a buffer source
    effectTimer,    \* index held by the playback effect's 10 ms timer
    seekTimers,     \* 50 ms timers of handleSentenceClick
    intents,        \* user intents issued so far
    budget,         \* user intents a behaviour may issue
    last,           \* the last operation performed
    session,        \* indices whose audio started since the last play, stop or seek
    opLog           \* SpecCache: operations since construction / clear

vars == <<segs, flight, playback, engine, openaiKey, activeIndexRef, cache,
          capacity, orphans, sources, endedQ, effectTimer, seekTimers,
          intents, budget, last, session, opLog>>

appVars == <<segs, flight, playback, engine, openaiKey, activeIndexRef,
             orphans, sources, endedQ, effectTimer, seekTimers, intents, budget,
             session>>

\* --------------------------------------------------------- AudioLRUCache
\* The Map is a sequence of [key, val] in insertion order (oldest first).
\* A value is a promise [kind, idx, st, wrapped, ws]: wrapped says that
\* prefetchGeminiSentence created it (with its .catch handler), ws lists the
\* playSentence invocations suspended on it.
Undefined == [kind |-> "undefined", idx |-> -1, st |-> "none", wrapped |-> FALSE,
              ws |-> << >>]

Without(c, key) == SelectSeq(c, LAMBDA e : e.key # key)

Keys(c) == {c[k].key : k \in DOMAIN c}

has(c, key) == \E k \in DOMAIN c : c[k].key = key

Lookup(c, key) == c[CHOOSE k \in DOMAIN c : c[k].key = key].val

getNoRefresh(c, key) ==
    IF ~has(c, key) THEN [cache |-> c, val |-> Undefined]
    ELSE [cache |-> c, val |-> Lookup(c, key)]

\* get: a hit deletes and re-inserts the key, making it the newest.
get(c, key) ==
    IF ~has(c, key) THEN [cache |-> c, val |-> Undefined]
    ELSE [cache |-> Append(Without(c, key), [key |-> key, val |-> Lookup(c, key)]),
          val |-> Lookup(c, key)]

setNoEvict(c, cap, key, val) ==
    Append(Without(c, key), [key |-> key, val |-> val])

\* set: an existing key is re-inserted; otherwise at capacity the first
\* (oldest) key of the Map is evicted before the insertion.
set(c, cap, key, val) ==
    IF has(c, key) THEN Append(Without(c, key), [key |-> key, val |-> val])
    ELSE IF Len(c) >= cap /\ Len(c) > 0
         THEN Append(Tail(c), [key |-> key, val |-> val])
         ELSE Append(c, [key |-> key, val |-> val])

deleteNone(c, key) == c

delete(c, key) == Without(c, key)

clearNone(c) == c

clear(c) == << >>

\* ------------------------------------------------------------- SpecCache
\* The record kept in `last`: the operation, its index argument, the indices
\* for which it issued a synthesis call and, for a promise that settled,
\* whether prefetchGeminiSentence created it, how many invocations awaited it
\* and whether it had been removed from the cache (clear, eviction) before.
\* canceled: the step ran synthRef.current.cancel() (stopAudio, or the head
\* of playSentence) on an utterance that was being spoken, whose `error`
\* event ('interrupted' or 'canceled') is therefore due.
CancelOps == {"stop", "toggleOff", "click", "navigate", "upload", "translate", "record",
              "playGoogle", "playOpenai", "playNoKey", "playBrowser"}

Op(op, idx) ==
    [op |-> op, idx |-> idx, made |-> {}, sent |-> {}, wrapped |-> FALSE, resumed |-> 0,
     removed |-> FALSE,
     canceled |-> /\ op \in CancelOps
                  /\ \E k \in DOMAIN sources : sources[k].kind = "utterance"]

InitPlayback == [isPlaying |-> FALSE, isLoading |-> FALSE,
                 currentIndex |-> -1, detectedEmotion |-> "none"]

\* A value stored by the cache's callers in SpecCache.
Stub == [Undefined EXCEPT !.kind = "google", !.st = "pending"]

InitCache ==
    /\ segs = << >>
    /\ playback = InitPlayback
    /\ engine = "browser"
    /\ openaiKey = FALSE
    /\ activeIndexRef = -1
    /\ orphans = << >>
    /\ sources = << >>
    /\ endedQ = << >>
    /\ effectTimer = None
    /\ seekTimers = << >>
    /\ intents = 0
    /\ budget = 0
    /\ session = {}
    /\ flight = << >>
    /\ cache = << >>
    /\ capacity \in 1..MaxCapacity
    /\ last = Op("new", capacity)
    /\ opLog = << >>

Logged(op, key, hit) == Append(opLog, [op |-> op, key |-> key, hit |-> hit])

CacheGet(key) ==
    /\ Len(opLog) < MaxOps
    /\ cache' = get(cache, key).cache
    /\ opLog' = Logged("get", key, has(cache, key))
    /\ last' = Op("get", key)
    /\ UNCHANGED <<appVars, capacity>>

CacheSet(key) ==
    /\ Len(opLog) < MaxOps
    /\ cache' = set(cache, capacity, key, [Stub EXCEPT !.idx = key])
    /\ opLog' = Logged("set", key, has(cache, key))
    /\ last' = Op("set", key)
    /\ UNCHANGED <<appVars, capacity>>

CacheHas(key) ==
    /\ Len(opLog) < MaxOps
    /\ opLog' = Logged("has", key, has(cache, key))
    /\ last' = Op("has", key)
    /\ UNCHANGED <<appVars, cache, capacity>>

CacheDelete(key) ==
    /\ Len(opLog) < MaxOps
    /\ cache' = delete(cache, key)
    /\ opLog' = Logged("delete", key, has(cache, key))
    /\ last' = Op("delete", key)
    /\ UNCHANGED <<appVars, capacity>>

CacheClear ==
    /\ cache' = clear(cache)
    /\ opLog' = << >>
    /\ last' = Op("clear", None)
    /\ UNCHANGED <<appVars, capacity>>

NextCache ==
    \/ \E key \in 0..MaxKey : CacheGet(key)
    \/ \E key \in 0..MaxKey : CacheSet(key)
    \/ \E key \in 0..MaxKey : CacheHas(key)
    \/ \E key \in 0..MaxKey : CacheDelete(key)
    \/ CacheClear

SpecCache == InitCache /\ [][NextCache]_vars

\* -------------------------------------------------------------------- App
Text(index) == segs[index + 1]

InRange(index) == 0 <= index /\ index < Len(segs)

playNextWrap(pb, len) == [pb EXCEPT !.currentIndex = (pb.currentIndex + 1) % len]

\* playNext: `len` is pdfData.textSegments.length as captured by the closure.
playNext(pb, len) ==
    IF pb.currentIndex + 1 < len
    THEN [pb EXCEPT !.currentIndex = pb.currentIndex + 1]
    ELSE [pb EXCEPT !.isPlaying = FALSE, !.currentIndex = 0]

\* What synthRef.cancel(), audioRef.pause() and sourceNodeRef.stop() reach:
\* every utterance, and the audio element / buffer source the ref holds.
Reached(s) == s.kind = "utterance" \/ s.held

StopSources(ss) == SelectSeq(ss, LAMBDA s : ~Reached(s))

\* stop() of a sounding AudioBufferSourceNode dispatches its `ended` event,
\* whose handler is the playNext captured when the source was started.
StoppedNodes(ss) == SelectSeq(ss, LAMBDA s : s.kind = "node" /\ s.held)

EndedAfterStop(ss) ==
    endedQ \o [k \in 1..Len(StoppedNodes(ss)) |-> StoppedNodes(ss)[k].len]

\* A new element stored in audioRef / sourceNodeRef: the old one is no
\* longer reachable through the ref.
Unhold(ss, kind) ==
    [k \in DOMAIN ss |-> IF ss[k].kind = kind THEN [ss[k] EXCEPT !.held = FALSE] ELSE ss[k]]

stopAudioRewind(pb) ==
    [pb EXCEPT !.isPlaying = FALSE, !.isLoading = FALSE, !.detectedEmotion = "none",
               !.currentIndex = 0]

stopAudio(pb) ==
    [pb EXCEPT !.isPlaying = FALSE, !.isLoading = FALSE, !.detectedEmotion = "none"]

RunEffectKeepTimer(force, tmr) ==
    IF force \/ playback'.currentIndex # playback.currentIndex
             \/ playback'.isPlaying # playback.isPlaying
    THEN IF playback'.isPlaying
         THEN /\ activeIndexRef' = playback'.currentIndex
              /\ effectTimer' = IF tmr # None THEN tmr ELSE playback'.currentIndex
         ELSE /\ activeIndexRef' = activeIndexRef
              /\ effectTimer' = tmr
    ELSE /\ activeIndexRef' = activeIndexRef
         /\ effectTimer' = tmr

RunEffectNoRef(force, tmr) ==
    /\ activeIndexRef' = activeIndexRef
    /\ effectTimer' = IF force \/ playback'.currentIndex # playback.currentIndex
                          \/ playback'.isPlaying # playback.isPlaying
                      THEN IF playback'.isPlaying THEN playback'.currentIndex ELSE None
                      ELSE tmr

\* The playback effect (deps: currentIndex, isPlaying, playSentence).  `force`
\* says that playSentence was re-created (textSegments or settings changed);
\* `tmr` is the timer the step leaves armed when the effect does not re-run.
RunEffect(force, tmr) ==
    IF force \/ playback'.currentIndex # playback.currentIndex
             \/ playback'.isPlaying # playback.isPlaying
    THEN IF playback'.isPlaying
         THEN /\ activeIndexRef' = playback'.currentIndex
              /\ effectTimer' = playback'.currentIndex
         ELSE /\ activeIndexRef' = activeIndexRef
              /\ effectTimer' = None
    ELSE /\ activeIndexRef' = activeIndexRef
         /\ effectTimer' = tmr

processAlways(index, wrapped) ==
    [kind |-> "google", idx |-> index, st |-> "pending", wrapped |-> wrapped, ws |-> << >>]

\* processGeminiSentence: an async function, so "Empty text" is a promise
\* that is rejected from the start.
processGeminiSentence(index, wrapped) ==
    [kind |-> "google", idx |-> index,
     st |-> IF Text(index) = 0 THEN "rejected" ELSE "pending",
     wrapped |-> wrapped, ws |-> << >>]

\* A promise that leaves the cache is still observable while it is pending
\* and either awaited or a prefetch (whose .catch handler deletes its index).
Kept(pr) == pr.st = "pending" /\ (pr.wrapped \/ pr.ws # << >>)

\* The promises of c that c2 no longer holds and that remain observable.
Orphaned(c, c2) ==
    LET gone == SelectSeq(c, LAMBDA e : Kept(e.val) /\ ~\E k \in DOMAIN c2 : c2[k] = e)
    IN [k \in DOMAIN gone |-> gone[k].val]

\* promise = processGeminiSentence(index); audioCache.current.set(index, promise)
\* on the heap h = [cache, orphans, made, sent]: sent is the set of indices
\* whose text went to detectEmotion; made is the set of indices for
\* which the handler issued a synthesis call.
Create(h, index, wrapped) ==
    LET pr == processGeminiSentence(index, wrapped)
        c2 == set(h.cache, capacity, index, pr)
    IN [cache |-> c2,
        orphans |-> h.orphans \o Orphaned(h.cache, c2),
        made |-> h.made \cup {index},
        sent |-> h.sent \cup (IF pr.st = "pending" THEN {index} ELSE {})]

prefetchAlways(h, index) ==
    IF index >= Len(segs) THEN h
    ELSE Create(h, index, TRUE)

\* prefetchGeminiSentence.
prefetchGeminiSentence(h, index) ==
    IF index >= Len(segs) THEN h
    ELSE IF has(h.cache, index) THEN h
    ELSE Create(h, index, TRUE)

\* The .catch handlers of prefetches that were rejected from the start run
\* as microtasks after the synchronous part of playSentence.
DeleteFailed(c) == SelectSeq(c, LAMBDA e : ~(e.val.wrapped /\ e.val.st = "rejected"))

PlayHeapOne(index) ==
    LET g == get(cache, index)
        miss == g.val = Undefined
        h0 == [cache |-> g.cache, orphans |-> orphans, made |-> {}, sent |-> {}]
        h1 == IF miss THEN Create(h0, index, FALSE) ELSE h0
        h2 == prefetchGeminiSentence(h1, index + 1)
    IN [cache |-> DeleteFailed(h2.cache), orphans |-> h2.orphans,
        made |-> h2.made, sent |-> h2.sent, miss |-> miss]

\* The cache part of playSentence (google): get, set on a miss, two prefetches.
PlayHeap(index) ==
    LET g == get(cache, index)
        miss == g.val = Undefined
        h0 == [cache |-> g.cache, orphans |-> orphans, made |-> {}, sent |-> {}]
        h1 == IF miss THEN Create(h0, index, FALSE) ELSE h0
        h2 == prefetchGeminiSentence(prefetchGeminiSentence(h1, index + 1), index + 2)
    IN [cache |-> DeleteFailed(h2.cache), orphans |-> h2.orphans,
        made |-> h2.made, sent |-> h2.sent, miss |-> miss]

\* `await itemPromise` on a pending promise: invocation w is suspended on it.
Await(c, index, w) ==
    [k \in DOMAIN c |-> IF c[k].key = index
                        THEN [c[k] EXCEPT !.val.ws = Append(@, w)] ELSE c[k]]

RECURSIVE SumWs(_)
SumWs(ps) == IF ps = << >> THEN 0 ELSE Len(Head(ps).ws) + SumWs(Tail(ps))

\* The playSentence invocations suspended at an await.
NumWaiters(c, o) == SumWs([k \in DOMAIN c |-> c[k].val]) + SumWs(o)

AfterAwaitAny(st, w, index, kind) ==
    [playback |-> [st.playback EXCEPT !.isLoading = FALSE],
     sources |-> Append(Unhold(st.sources, kind),
                        [kind |-> kind, idx |-> index, len |-> w.len, held |-> TRUE])]

\* The code after `await` of one suspended playSentence invocation w, on the
\* state st = [playback, sources]; w.playing is the playback.isPlaying that
\* the invocation's closure captured.
AfterAwait(st, w, index, kind) ==
    IF activeIndexRef # index THEN st
    ELSE IF ~w.playing THEN st
    ELSE [playback |-> IF kind = "node"
                       THEN [st.playback EXCEPT !.isLoading = FALSE,
                                                !.detectedEmotion = "tone"]
                       ELSE [st.playback EXCEPT !.isLoading = FALSE],
          sources |-> Append(Unhold(st.sources, kind),
                             [kind |-> kind, idx |-> index, len |-> w.len, held |-> TRUE])]

CatchAlways(st, index) ==
    [st EXCEPT !.playback = [@ EXCEPT !.isPlaying = FALSE, !.isLoading = FALSE]]

\* The catch block: stop only if the failed index is still the active one.
Catch(st, index) ==
    IF activeIndexRef = index
    THEN [st EXCEPT !.playback = [@ EXCEPT !.isPlaying = FALSE, !.isLoading = FALSE]]
    ELSE st

\* audio.play() rejected: the checks passed, the element is in audioRef, and
\* the catch block runs.
PlayRejected(st, w, index) ==
    IF activeIndexRef # index THEN st
    ELSE IF ~w.playing THEN st
    ELSE Catch([st EXCEPT !.sources = Unhold(@, "audio")], index)

SourceKind(pr) == IF pr.kind = "google" THEN "node" ELSE "audio"

\* The invocations suspended on promise pr resume in the order they awaited.
RECURSIVE Resume(_, _, _, _)
Resume(st, ws, pr, outcome) ==
    IF ws = << >> THEN st
    ELSE Resume(CASE outcome = "resolved" -> AfterAwait(st, Head(ws), pr.idx, SourceKind(pr))
                  [] outcome = "playfail" -> PlayRejected(st, Head(ws), pr.idx)
                  [] OTHER -> Catch(st, pr.idx),
                Tail(ws), pr, outcome)

Settled(pr, outcome) ==
    [pr EXCEPT !.st = IF outcome = "rejected" THEN "rejected" ELSE "resolved",
               !.ws = << >>]

RemoveAt(s, k) == [j \in 1..(Len(s) - 1) |-> IF j < k THEN s[j] ELSE s[j + 1]]

\* ---------------------------------------------------------------- actions
\* The App once a document of n sentences has been parsed and installed
\* (handleFileUpload has run to its end; parsePdf keeps no empty sentence)
\* and an engine has been selected: currentIndex is 0, nothing plays, the
\* cache is empty.
Init ==
    /\ \E n \in 1..MaxSegs : segs = [k \in 1..n |-> 1]
    /\ playback = [InitPlayback EXCEPT !.currentIndex = 0]
    /\ engine \in {"browser", "openai", "google"}
    /\ openaiKey \in BOOLEAN
    /\ activeIndexRef = -1
    /\ orphans = << >>
    /\ sources = << >>
    /\ endedQ = << >>
    /\ effectTimer = None
    /\ seekTimers = << >>
    /\ intents = 0
    /\ budget = MaxIntents
    /\ session = {}
    /\ flight = << >>
    /\ cache = << >>
    /\ capacity = AppCapacity
    /\ last = Op("new", None)
    /\ opLog = << >>

fixed == <<segs, flight, budget, capacity, opLog>>

\* The indices for which the step started a sound source: speakBrowser, or
\* source.start() / audio.play() in a playSentence that passed its checks.
Started ==
    IF last'.op = "playBrowser" THEN {last'.idx}
    ELSE IF last'.op = "resolved" /\ Len(sources') > Len(sources) THEN {last'.idx}
    ELSE IF last'.op = "playGoogle" /\ Len(sources') > Len(StopSources(sources))
    THEN {last'.idx}
    ELSE {}

\* A user intent: a click or a settings change.  Every handler but a
\* settings change runs stopAudio or starts playing.
Intent ==
    /\ intents < budget
    /\ intents' = intents + 1
    /\ session' = IF last'.op \in {"engine", "voice", "key"} THEN session ELSE {}

\* A timer, promise or media callback.  The callback of a seek's 50 ms
\* timer sets isPlaying, and a parsed or translated document is installed at
\* currentIndex 0: playback begins again.
NoIntent ==
    /\ intents' = intents
    /\ session' = IF last'.op \in {"seek", "parsed", "translated"} THEN {}
                  ELSE session \cup Started

togglePlayKeep(pb) == [pb EXCEPT !.isPlaying = TRUE]

togglePlayRewind(pb) == [pb EXCEPT !.isPlaying = TRUE, !.currentIndex = 0]

\* togglePlay, not playing: isPlaying: true, currentIndex -1 becomes 0.
togglePlay(pb) ==
    [pb EXCEPT !.isPlaying = TRUE, !.currentIndex = IF @ = -1 THEN 0 ELSE @]

\* togglePlay in a stopped state (the button is disabled on an empty document).
TogglePlayOn ==
    /\ Len(segs) # 0
    /\ ~playback.isPlaying
    /\ playback' = togglePlay(playback)
    /\ RunEffect(FALSE, effectTimer)
    /\ last' = Op("toggle", playback'.currentIndex)
    /\ Intent
    /\ UNCHANGED <<engine, openaiKey, cache, orphans, sources, endedQ,
                   seekTimers, fixed>>

\* stopAudio: the stop button, and togglePlay in a playing state.
Stop ==
    /\ Len(segs) # 0
    /\ Len(EndedAfterStop(sources)) <= MaxEnded
    /\ sources' = StopSources(sources)
    /\ endedQ' = EndedAfterStop(sources)
    /\ playback' = stopAudio(playback)
    /\ RunEffect(FALSE, effectTimer)
    /\ last' = Op("stop", playback.currentIndex)
    /\ Intent
    /\ UNCHANGED <<engine, openaiKey, cache, orphans, seekTimers, fixed>>

\* togglePlay in a playing state: stopAudio().
TogglePlayOff ==
    /\ Len(segs) # 0
    /\ playback.isPlaying
    /\ Len(EndedAfterStop(sources)) <= MaxEnded
    /\ sources' = StopSources(sources)
    /\ endedQ' = EndedAfterStop(sources)
    /\ playback' = stopAudio(playback)
    /\ RunEffect(FALSE, effectTimer)
    /\ last' = Op("toggleOff", playback.currentIndex)
    /\ Intent
    /\ UNCHANGED <<engine, openaiKey, cache, orphans, seekTimers, fixed>>

\* togglePlay on an empty document: return.
TogglePlayEmpty ==
    /\ Len(segs) = 0
    /\ last' = Op("toggleEmpty", playback.currentIndex)
    /\ Intent
    /\ UNCHANGED <<playback, engine, openaiKey, activeIndexRef, cache, orphans,
                   sources, endedQ, effectTimer, seekTimers, fixed>>

\* handleSentenceClick(index): stopAudio now, setPlayback in 50 ms.
SentenceClick(index) ==
    /\ InRange(index)
    /\ Len(seekTimers) < MaxSeeks
    /\ Len(EndedAfterStop(sources)) <= MaxEnded
    /\ sources' = StopSources(sources)
    /\ endedQ' = EndedAfterStop(sources)
    /\ playback' = stopAudio(playback)
    /\ seekTimers' = Append(seekTimers, index)
    /\ RunEffect(FALSE, effectTimer)
    /\ last' = Op("click", index)
    /\ Intent
    /\ UNCHANGED <<engine, openaiKey, cache, orphans, fixed>>

\* The 50 ms timer: setPlayback({isPlaying: true, isLoading: false, currentIndex}).
SeekFire ==
    /\ seekTimers # << >>
    /\ seekTimers' = Tail(seekTimers)
    /\ playback' = [isPlaying |-> TRUE, isLoading |-> FALSE,
                    currentIndex |-> Head(seekTimers), detectedEmotion |-> "none"]
    /\ RunEffect(FALSE, effectTimer)
    /\ last' = Op("seek", Head(seekTimers))
    /\ NoIntent
    /\ UNCHANGED <<engine, openaiKey, cache, orphans, sources, endedQ, fixed>>

\* audioCache.current.clear() of the clear-cache effect: the pending promises
\* live on outside the cache.
ClearCache ==
    /\ Len(orphans) + Len(Orphaned(cache, << >>)) <= MaxOrphans
    /\ cache' = clear(cache)
    /\ orphans' = orphans \o Orphaned(cache, << >>)

\* onSettingsChange({engine}): the clear-cache effect and, playSentence being
\* re-created, the playback effect.
SetEngine(e) ==
    /\ e # engine
    /\ engine' = e
    /\ ClearCache
    /\ playback' = playback
    /\ RunEffect(TRUE, effectTimer)
    /\ last' = Op("engine", None)
    /\ Intent
    /\ UNCHANGED <<openaiKey, sources, endedQ, seekTimers, fixed>>

\* onSettingsChange({googleVoice}) with another voice; the selector is shown
\* for engine google.  Only the change matters to the scheduler.
SetGoogleVoice ==
    /\ engine = "google"
    /\ ClearCache
    /\ playback' = playback
    /\ RunEffect(TRUE, effectTimer)
    /\ last' = Op("voice", None)
    /\ Intent
    /\ UNCHANGED <<engine, openaiKey, sources, endedQ, seekTimers, fixed>>

\* onSettingsChange({openaiKey}); the field is shown for engine openai.
SetOpenaiKey(k) ==
    /\ engine = "openai"
    /\ k # openaiKey
    /\ openaiKey' = k
    /\ playback' = playback
    /\ RunEffect(TRUE, effectTimer)
    /\ last' = Op("key", None)
    /\ Intent
    /\ UNCHANGED <<engine, cache, orphans, sources, endedQ, seekTimers, fixed>>

\* ---- the 10 ms timer of the playback effect: playSentence(currentIndex) ----
\* TimerGuard: the index is in range and its text is not empty, so that
\* neither early return of playSentence is taken.
TimerFires == effectTimer # None /\ activeIndexRef = effectTimer

TimerGuard ==
    /\ TimerFires
    /\ InRange(effectTimer)
    /\ Text(effectTimer) # 0

PlayOutOfRangeAdvance ==
    /\ TimerFires
    /\ ~InRange(effectTimer)
    /\ playback' = playNext(playback, Len(segs))
    /\ RunEffect(FALSE, None)
    /\ last' = Op("playNone", effectTimer)
    /\ NoIntent
    /\ UNCHANGED <<engine, openaiKey, cache, orphans, sources, endedQ,
                   seekTimers, fixed>>

\* index out of range: return.
PlayOutOfRange ==
    /\ TimerFires
    /\ ~InRange(effectTimer)
    /\ effectTimer' = None
    /\ last' = Op("playNone", effectTimer)
    /\ NoIntent
    /\ UNCHANGED <<playback, engine, openaiKey, activeIndexRef, cache, orphans,
                   sources, endedQ, seekTimers, fixed>>

\* Empty text: playNext(), return - before the previous sources are stopped.
PlayEmpty ==
    /\ TimerFires
    /\ InRange(effectTimer)
    /\ Text(effectTimer) = 0
    /\ playback' = playNext(playback, Len(segs))
    /\ RunEffect(FALSE, None)
    /\ last' = Op("playEmpty", effectTimer)
    /\ NoIntent
    /\ UNCHANGED <<engine, openaiKey, cache, orphans, sources, endedQ,
                   seekTimers, fixed>>

\* The google branch.  An awaited promise that is already settled resumes the
\* invocation in the same task.  The cache is larger than the document, so
\* the two prefetches do not evict the entry of index.
PlayGoogle ==
    /\ TimerGuard
    /\ engine = "google"
    /\ LET index == effectTimer
           h == PlayHeap(index)
           pr == Lookup(h.cache, index)
           w == [len |-> Len(segs), playing |-> playback.isPlaying]
           st0 == [playback |-> IF h.miss THEN [playback EXCEPT !.isLoading = TRUE]
                                ELSE playback,
                   sources |-> StopSources(sources)]
           st == IF pr.st = "pending" THEN st0
                 ELSE Resume(st0, <<w>>, pr, pr.st)
       IN /\ has(h.cache, index)
          /\ Len(h.orphans) <= MaxOrphans
          /\ Len(EndedAfterStop(sources)) <= MaxEnded
          /\ pr.st = "pending" => NumWaiters(cache, orphans) < MaxWaiters
          /\ Len(st.sources) <= MaxSources
          /\ cache' = IF pr.st = "pending" THEN Await(h.cache, index, w) ELSE h.cache
          /\ orphans' = h.orphans
          /\ playback' = st.playback
          /\ sources' = st.sources
          /\ endedQ' = EndedAfterStop(sources)
          /\ RunEffect(FALSE, None)
          /\ last' = [Op("playGoogle", index) EXCEPT !.made = h.made, !.sent = h.sent]
          /\ NoIntent
    /\ UNCHANGED <<engine, openaiKey, seekTimers, fixed>>

\* The openai branch without a key: alert, engine back to browser.
PlayOpenaiNoKey ==
    /\ TimerGuard
    /\ engine = "openai"
    /\ ~openaiKey
    /\ Len(EndedAfterStop(sources)) <= MaxEnded
    /\ sources' = StopSources(sources)
    /\ endedQ' = EndedAfterStop(sources)
    /\ engine' = "browser"
    /\ ClearCache
    /\ playback' = playback
    /\ RunEffect(TRUE, None)
    /\ last' = Op("playNoKey", effectTimer)
    /\ NoIntent
    /\ UNCHANGED <<openaiKey, seekTimers, fixed>>

\* The openai branch: isLoading, then await fetchOpenAIAudio.
PlayOpenai ==
    /\ TimerGuard
    /\ engine = "openai"
    /\ openaiKey
    /\ Len(orphans) < MaxOrphans
    /\ NumWaiters(cache, orphans) < MaxWaiters
    /\ Len(EndedAfterStop(sources)) <= MaxEnded
    /\ sources' = StopSources(sources)
    /\ endedQ' = EndedAfterStop(sources)
    /\ playback' = [playback EXCEPT !.isLoading = TRUE, !.detectedEmotion = "none"]
    /\ orphans' = Append(orphans,
                         [kind |-> "openai", idx |-> effectTimer, st |-> "pending",
                          wrapped |-> FALSE,
                          ws |-> <<[len |-> Len(segs), playing |-> playback.isPlaying]>>])
    /\ RunEffect(FALSE, None)
    /\ last' = [Op("playOpenai", effectTimer) EXCEPT !.made = {effectTimer},
                                                !.sent = {effectTimer}]
    /\ NoIntent
    /\ UNCHANGED <<engine, openaiKey, cache, seekTimers, fixed>>

\* The browser branch: speakBrowser starts the utterance.
PlayBrowser ==
    /\ TimerGuard
    /\ engine = "browser"
    /\ Len(EndedAfterStop(sources)) <= MaxEnded
    /\ Len(StopSources(sources)) < MaxSources
    /\ sources' = Append(StopSources(sources),
                         [kind |-> "utterance", idx |-> effectTimer,
                          len |-> Len(segs), held |-> TRUE])
    /\ endedQ' = EndedAfterStop(sources)
    /\ playback' = [playback EXCEPT !.detectedEmotion = "none"]
    /\ RunEffect(FALSE, None)
    /\ last' = [Op("playBrowser", effectTimer) EXCEPT !.sent = {effectTimer}]
    /\ NoIntent
    /\ UNCHANGED <<engine, openaiKey, cache, orphans, seekTimers, fixed>>

\* ---- the backends ----
\* What every settling promise pr does to the player: the invocations
\* suspended on it resume.
SettlePlayer(pr, outcome, removed) ==
    LET st == Resume([playback |-> playback, sources |-> sources], pr.ws, pr, outcome)
    IN /\ Len(st.sources) <= MaxSources
       /\ playback' = st.playback
       /\ sources' = st.sources
       /\ RunEffect(FALSE, effectTimer)
       /\ last' = [Op(outcome, pr.idx) EXCEPT !.wrapped = pr.wrapped,
                                              !.resumed = Len(pr.ws),
                                              !.removed = removed]
       /\ NoIntent

\* The synthesis of the promise at position k of the cache settles.  A
\* prefetch's .catch handler deletes the index from the cache; a promise
\* created by playSentence stays in the cache, fulfilled or rejected.
SettleCached(k, outcome) ==
    /\ k \in DOMAIN cache
    /\ cache[k].val.st = "pending"
    /\ SettlePlayer(cache[k].val, outcome, FALSE)
    /\ cache' = IF outcome = "rejected" /\ cache[k].val.wrapped
                THEN delete(cache, cache[k].val.idx)
                ELSE [cache EXCEPT ![k].val = Settled(@, outcome)]
    /\ UNCHANGED <<engine, openaiKey, orphans, endedQ, seekTimers, fixed>>

\* A promise that is no longer in the cache settles (an OpenAI fetch is
\* never in it; "playfail" is audio.play() rejecting after the fetch).  The
\* .catch handler of a prefetch deletes whatever the cache holds for its index.
SettleOrphan(k, outcome) ==
    /\ k \in DOMAIN orphans
    /\ outcome = "playfail" => orphans[k].kind = "openai"
    /\ SettlePlayer(orphans[k], outcome, orphans[k].kind = "google")
    /\ IF outcome = "rejected" /\ orphans[k].wrapped
       THEN /\ cache' = delete(cache, orphans[k].idx)
            /\ orphans' = RemoveAt(orphans, k) \o Orphaned(cache, cache')
       ELSE /\ cache' = cache
            /\ orphans' = RemoveAt(orphans, k)
    /\ UNCHANGED <<engine, openaiKey, endedQ, seekTimers, fixed>>

\* ---- the audio device ----
\* Natural completion of source k: onended / onend calls the captured playNext.
SourceEnds(k) ==
    /\ k \in DOMAIN sources
    /\ sources' = RemoveAt(sources, k)
    /\ playback' = playNext(playback, sources[k].len)
    /\ RunEffect(FALSE, effectTimer)
    /\ last' = Op("ended", sources[k].idx)
    /\ NoIntent
    /\ UNCHANGED <<engine, openaiKey, cache, orphans, endedQ, seekTimers, fixed>>

\* The `ended` event of a buffer source that was stopped.
EndedAfterStopFires ==
    /\ endedQ # << >>
    /\ endedQ' = Tail(endedQ)
    /\ playback' = playNext(playback, Head(endedQ))
    /\ RunEffect(FALSE, effectTimer)
    /\ last' = Op("endedStopped", None)
    /\ NoIntent
    /\ UNCHANGED <<engine, openaiKey, cache, orphans, sources, seekTimers, fixed>>

Next ==
    \/ TogglePlayOn
    \/ Stop
    \/ \E index \in 0..(MaxSegs - 1) : SentenceClick(index)
    \/ SeekFire
    \/ \E e \in {"browser", "openai", "google"} : SetEngine(e)
    \/ SetGoogleVoice
    \/ \E k \in BOOLEAN : SetOpenaiKey(k)
    \/ PlayGoogle
    \/ PlayOpenaiNoKey
    \/ PlayOpenai
    \/ PlayBrowser
    \/ \E k \in 1..MaxSegs, outcome \in {"resolved", "rejected"} :
          SettleCached(k, outcome)
    \/ \E k \in 1..MaxOrphans, outcome \in {"resolved", "rejected", "playfail"} :
          SettleOrphan(k, outcome)
    \/ \E k \in 1..MaxSources : SourceEnds(k)
    \/ EndedAfterStopFires

Spec == Init /\ [][Next]_vars

\* A parsed document, shorter than MaxSegs, with the google engine selected,
\* and one more user intent than Spec allows.
InitStop ==
    /\ \E n \in 1..(MaxSegs - 1) : segs = [k \in 1..n |-> 1]
    /\ flight = << >>
    /\ playback = [InitPlayback EXCEPT !.currentIndex = 0]
    /\ engine = "google"
    /\ openaiKey = FALSE
    /\ activeIndexRef = -1
    /\ orphans = << >>
    /\ sources = << >>
    /\ endedQ = << >>
    /\ effectTimer = None
    /\ seekTimers = << >>
    /\ intents = 0
    /\ budget = MaxIntents + 1
    /\ session = {}
    /\ cache = << >>
    /\ capacity = AppCapacity
    /\ last = Op("new", None)
    /\ opLog = << >>

SpecStop == InitStop /\ [][Next]_vars

\* ---- the document ----
Sentences(n) == [k \in 1..n |-> 1]

\* handleFileUpload(file), up to the await of parsePdf, which will return a
\* document of n sentences (parsePdf keeps no empty sentence).
UploadStart(n) ==
    /\ Len(flight) < MaxFlight
    /\ Len(EndedAfterStop(sources)) <= MaxEnded
    /\ flight' = Append(flight, [op |-> "parse", segs |-> Sentences(n), idx |-> None])
    /\ sources' = StopSources(sources)
    /\ endedQ' = EndedAfterStop(sources)
    /\ ClearCache
    /\ playback' = InitPlayback
    /\ RunEffect(FALSE, effectTimer)
    /\ last' = Op("upload", n)
    /\ Intent
    /\ UNCHANGED <<segs, engine, openaiKey, seekTimers, budget, capacity, opLog>>

\* handleFileUpload after the await: setPdfData(data), currentIndex: 0.
UploadDone(k) ==
    /\ k \in DOMAIN flight
    /\ flight[k].op = "parse"
    /\ flight' = RemoveAt(flight, k)
    /\ segs' = flight[k].segs
    /\ playback' = [playback EXCEPT !.currentIndex = 0]
    /\ RunEffect(TRUE, effectTimer)
    /\ last' = Op("parsed", Len(flight[k].segs))
    /\ NoIntent
    /\ UNCHANGED <<engine, openaiKey, cache, orphans, sources, endedQ, seekTimers,
                   budget, capacity, opLog>>

\* handleTranslate up to the first await of translateBatch; the button is
\* disabled while a translation is running.
TranslateStart ==
    /\ Len(segs) # 0
    /\ \A k \in DOMAIN flight : flight[k].op # "translate"
    /\ Len(flight) < MaxFlight
    /\ Len(EndedAfterStop(sources)) <= MaxEnded
    /\ flight' = Append(flight, [op |-> "translate", segs |-> segs, idx |-> None])
    /\ sources' = StopSources(sources)
    /\ endedQ' = EndedAfterStop(sources)
    /\ playback' = stopAudio(playback)
    /\ RunEffect(FALSE, effectTimer)
    /\ last' = Op("translate", None)
    /\ Intent
    /\ UNCHANGED <<segs, engine, openaiKey, cache, orphans, seekTimers,
                   budget, capacity, opLog>>

\* handleTranslate after the last batch: the segments it copied when it
\* started, overwritten by what translateBatch returned (any strings, empty
\* ones included), are installed; currentIndex: 0; the cache is cleared.
TranslateDone(k, new) ==
    /\ k \in DOMAIN flight
    /\ flight[k].op = "translate"
    /\ Len(new) = Len(flight[k].segs)
    /\ flight' = RemoveAt(flight, k)
    /\ segs' = new
    /\ playback' = [playback EXCEPT !.currentIndex = 0]
    /\ ClearCache
    /\ RunEffect(TRUE, effectTimer)
    /\ last' = Op("translated", None)
    /\ NoIntent
    /\ UNCHANGED <<engine, openaiKey, sources, endedQ, seekTimers,
                   budget, capacity, opLog>>

\* startRecording ... stopRecording: stopAudio, then the recorder's onstop
\* handler awaits transcribeAudio.  The handler reads playback.currentIndex
\* of the render in which startRecording was called.
RecordStart ==
    /\ Len(flight) < MaxFlight
    /\ Len(EndedAfterStop(sources)) <= MaxEnded
    /\ flight' = Append(flight, [op |-> "transcribe", segs |-> << >>,
                                 idx |-> playback.currentIndex])
    /\ sources' = StopSources(sources)
    /\ endedQ' = EndedAfterStop(sources)
    /\ playback' = stopAudio(playback)
    /\ RunEffect(FALSE, effectTimer)
    /\ last' = Op("record", None)
    /\ Intent
    /\ UNCHANGED <<segs, engine, openaiKey, cache, orphans, seekTimers,
                   budget, capacity, opLog>>

\* The transcription of n new sentences is appended to the document.
TranscribeDone(k, n) ==
    /\ k \in DOMAIN flight
    /\ flight[k].op = "transcribe"
    /\ n >= 1
    /\ Len(segs) + n <= MaxSegs
    /\ flight' = RemoveAt(flight, k)
    /\ segs' = segs \o Sentences(n)
    /\ playback' = IF flight[k].idx = -1 THEN [playback EXCEPT !.currentIndex = 0]
                   ELSE playback
    /\ RunEffect(TRUE, effectTimer)
    /\ last' = Op("transcribed", n)
    /\ NoIntent
    /\ UNCHANGED <<engine, openaiKey, cache, orphans, sources, endedQ, seekTimers,
                   budget, capacity, opLog>>

\* parsePdf, translateBatch or transcribeAudio fails (or the transcription is
\* empty): an alert, and nothing is installed.
FlightFails(k) ==
    /\ k \in DOMAIN flight
    /\ flight' = RemoveAt(flight, k)
    /\ last' = Op("failed", None)
    /\ NoIntent
    /\ UNCHANGED <<segs, playback, engine, openaiKey, activeIndexRef, cache, orphans,
                   sources, endedQ, effectTimer, seekTimers, budget, capacity, opLog>>

\* The App as constructed (no document, currentIndex -1) or at rest with a
\* parsed document installed.
InitDoc ==
    /\ \E n \in 0..MaxSegs :
          /\ segs = Sentences(n)
          /\ playback = IF n = 0 THEN InitPlayback
                        ELSE [InitPlayback EXCEPT !.currentIndex = 0]
    /\ flight = << >>
    /\ engine \in {"browser", "openai", "google"}
    /\ openaiKey \in BOOLEAN
    /\ activeIndexRef = -1
    /\ orphans = << >>
    /\ sources = << >>
    /\ endedQ = << >>
    /\ effectTimer = None
    /\ seekTimers = << >>
    /\ intents = 0
    /\ budget = MaxIntents
    /\ session = {}
    /\ cache = << >>
    /\ capacity = AppCapacity
    /\ last = Op("new", None)
    /\ opLog = << >>

Playing ==
    \/ TogglePlayOn
    \/ Stop
    \/ \E index \in 0..(MaxSegs - 1) : SentenceClick(index)
    \/ SeekFire
    \/ PlayOutOfRange
    \/ PlayEmpty
    \/ PlayGoogle
    \/ PlayOpenaiNoKey
    \/ PlayOpenai
    \/ PlayBrowser
    \/ \E k \in 1..MaxSegs, outcome \in {"resolved", "rejected"} :
          SettleCached(k, outcome)
    \/ \E k \in 1..MaxOrphans, outcome \in {"resolved", "rejected", "playfail"} :
          SettleOrphan(k, outcome)
    \/ \E k \in 1..MaxSources : SourceEnds(k)
    \/ EndedAfterStopFires

NextDoc ==
    \/ Playing
    \/ \E n \in 0..MaxSegs : UploadStart(n)
    \/ \E k \in 1..MaxFlight : UploadDone(k)
    \/ TranslateStart
    \/ \E k \in 1..MaxFlight, n \in 1..MaxSegs :
          \E new \in [1..n -> {0, 1}] : TranslateDone(k, new)
    \/ RecordStart
    \/ \E k \in 1..MaxFlight, n \in 1..MaxSegs : TranscribeDone(k, n)
    \/ \E k \in 1..MaxFlight : FlightFails(k)

\* The App with its document handlers; the settings stay as they are.
SpecDoc == InitDoc /\ [][NextDoc]_vars

NextToggle ==
    \/ NextDoc
    \/ TogglePlayOff
    \/ TogglePlayEmpty

\* The App with its document handlers and every branch of togglePlay.
SpecToggle == InitDoc /\ [][NextToggle]_vars

\* The App as constructed: no document, currentIndex -1.
InitRecord ==
    /\ segs = << >>
    /\ flight = << >>
    /\ playback = InitPlayback
    /\ engine \in {"browser", "openai", "google"}
    /\ openaiKey \in BOOLEAN
    /\ activeIndexRef = -1
    /\ orphans = << >>
    /\ sources = << >>
    /\ endedQ = << >>
    /\ effectTimer = None
    /\ seekTimers = << >>
    /\ intents = 0
    /\ budget = MaxIntents + 1
    /\ session = {}
    /\ cache = << >>
    /\ capacity = AppCapacity
    /\ last = Op("new", None)
    /\ opLog = << >>

SpecRecord == InitRecord /\ [][NextDoc]_vars

\* ---- playing a document through ----
\* A document at rest (any mix of empty and non-empty segments, as a
\* translation can leave it) on which togglePlay has just run at index 0; an
\* openai key is present.
InitPlay ==
    /\ \E n \in 1..MaxSegs : segs \in [1..n -> {0, 1}]
    /\ flight = << >>
    /\ playback = [InitPlayback EXCEPT !.isPlaying = TRUE, !.currentIndex = 0]
    /\ engine \in {"browser", "openai", "google"}
    /\ openaiKey = TRUE
    /\ activeIndexRef = 0
    /\ orphans = << >>
    /\ sources = << >>
    /\ endedQ = << >>
    /\ effectTimer = 0
    /\ seekTimers = << >>
    /\ intents = 0
    /\ budget = 0
    /\ session = {}
    /\ cache = << >>
    /\ capacity = AppCapacity
    /\ last = Op("toggle", 0)
    /\ opLog = << >>

\* No user input; every request resolves; every source ends by itself.
NextPlay ==
    \/ PlayEmpty
    \/ PlayGoogle
    \/ PlayOpenai
    \/ PlayBrowser
    \/ \E k \in 1..MaxSegs : SettleCached(k, "resolved")
    \/ \E k \in 1..MaxOrphans : SettleOrphan(k, "resolved")
    \/ \E k \in 1..MaxSources : SourceEnds(k)

\* Timers fire, promises settle and media events are dispatched by the event
\* loop: a step that stays possible is eventually taken.
SpecPlay == InitPlay /\ [][NextPlay]_vars /\ WF_vars(NextPlay)

\* ---- chapter navigation ----
MaxPages == 2       \* pages of the parsed PDF

NoPage == -3        \* pageMapping[pageIndex] is undefined

\* parsePdf pushes, for each page, the number of sentences extracted before
\* it: the mapping starts at 0, never decreases and ends at most at the
\* number of sentences (a last page without text).  Appended recordings leave
\* it as it is.
PageMappings(n) ==
    {m \in UNION {[1..l -> 0..n] : l \in 1..MaxPages} :
        /\ m[1] = 0
        /\ \A a, b \in DOMAIN m : a <= b => m[a] <= m[b]}

\* pdfData.pageMapping[pageIndex]
pageToSentence(m, pageIndex) ==
    IF pageIndex + 1 \in DOMAIN m THEN m[pageIndex + 1] ELSE NoPage

NavigateNoStop(m, pageIndex) ==
    /\ m \in PageMappings(Len(segs))
    /\ Len(seekTimers) < MaxSeeks
    /\ seekTimers' = Append(seekTimers, pageToSentence(m, pageIndex))
    /\ last' = Op("navigate", pageToSentence(m, pageIndex))
    /\ intents < budget
    /\ intents' = intents + 1
    /\ UNCHANGED <<playback, sources, endedQ, activeIndexRef, effectTimer, session,
                   engine, openaiKey, cache, orphans, fixed>>

\* handleNavigate(pageIndex), on the page mapping m of the installed
\* document: stopAudio and the 50 ms timer of a seek to the page's first
\* sentence, or nothing when the page has no entry.
Navigate(m, pageIndex) ==
    /\ m \in PageMappings(Len(segs))
    /\ intents < budget
    /\ last' = Op("navigate", pageToSentence(m, pageIndex))
    /\ IF pageToSentence(m, pageIndex) # NoPage
       THEN /\ Len(seekTimers) < MaxSeeks
            /\ Len(EndedAfterStop(sources)) <= MaxEnded
            /\ sources' = StopSources(sources)
            /\ endedQ' = EndedAfterStop(sources)
            /\ playback' = stopAudio(playback)
            /\ seekTimers' = Append(seekTimers, pageToSentence(m, pageIndex))
            /\ RunEffect(FALSE, effectTimer)
            /\ Intent
       ELSE /\ intents' = intents + 1
            /\ UNCHANGED <<playback, sources, endedQ, seekTimers, activeIndexRef,
                           effectTimer, session>>
    /\ UNCHANGED <<engine, openaiKey, cache, orphans, fixed>>

\* The App of Spec with the chapter list: a page of the list, or a page
\* the document does not have, is navigated to; a last page without text
\* maps to the index after the last sentence, which playSentence rejects.
NextNav ==
    \/ Next
    \/ PlayOutOfRange
    \/ \E m \in PageMappings(MaxSegs), pageIndex \in 0..MaxPages :
          Navigate(m, pageIndex)

SpecNav == Init /\ [][NextNav]_vars

\* ---- device errors ----
\* utterance.onerror of speakBrowser with the onError callback of playSentence.
utteranceOnError(pb, error) ==
    IF error \in {"interrupted", "canceled"} THEN pb
    ELSE [pb EXCEPT !.isPlaying = FALSE]

\* The `error` event of the utterance that the previous step canceled.
UtteranceInterrupted(error) ==
    /\ last.canceled
    /\ playback' = utteranceOnError(playback, error)
    /\ RunEffect(FALSE, effectTimer)
    /\ last' = Op("interrupted", last.idx)
    /\ NoIntent
    /\ UNCHANGED <<engine, openaiKey, cache, orphans, sources, endedQ, seekTimers, fixed>>

\* The speech engine fails while utterance k is spoken; no `end` event follows.
UtteranceError(k) ==
    /\ k \in DOMAIN sources
    /\ sources[k].kind = "utterance"
    /\ sources' = RemoveAt(sources, k)
    /\ playback' = utteranceOnError(playback, "synthesis-failed")
    /\ RunEffect(FALSE, effectTimer)
    /\ last' = Op("utteranceError", sources[k].idx)
    /\ NoIntent
    /\ UNCHANGED <<engine, openaiKey, cache, orphans, endedQ, seekTimers, fixed>>

\* audio.onerror: the element of source k fails while it plays.
AudioError(k) ==
    /\ k \in DOMAIN sources
    /\ sources[k].kind = "audio"
    /\ sources' = RemoveAt(sources, k)
    /\ playback' = [playback EXCEPT !.isPlaying = FALSE, !.isLoading = FALSE]
    /\ RunEffect(FALSE, effectTimer)
    /\ last' = Op("audioError", sources[k].idx)
    /\ NoIntent
    /\ UNCHANGED <<engine, openaiKey, cache, orphans, endedQ, seekTimers, fixed>>

\* The App of Spec with an output device that can fail.
NextDevice ==
    \/ Next
    \/ \E error \in {"interrupted", "canceled"} : UtteranceInterrupted(error)
    \/ \E k \in 1..MaxSources : UtteranceError(k)
    \/ \E k \in 1..MaxSources : AudioError(k)

SpecDevice == Init /\ [][NextDevice]_vars

\* ---- a backend that hangs ----
\* The synthesis call for the first sentence hangs; the other calls answer.
Stuck(pr) == pr.idx = 0

\* The user has sought since the request for the hung synthesis was made.
Sought(pr) == seekTimers # << >> \/ activeIndexRef # pr.idx

SettleResponsive ==
    \/ \E k \in 1..MaxSegs :
          /\ k \in DOMAIN cache
          /\ ~Stuck(cache[k].val)
          /\ SettleCached(k, "resolved")
    \/ \E k \in 1..MaxOrphans :
          /\ k \in DOMAIN orphans
          /\ ~Stuck(orphans[k])
          /\ SettleOrphan(k, "resolved")

\* The hung call answers after all, once the user has sought.
SettleLate ==
    \/ \E k \in 1..MaxSegs :
          /\ k \in DOMAIN cache
          /\ Stuck(cache[k].val)
          /\ Sought(cache[k].val)
          /\ SettleCached(k, "resolved")
    \/ \E k \in 1..MaxOrphans :
          /\ k \in DOMAIN orphans
          /\ Stuck(orphans[k])
          /\ Sought(orphans[k])
          /\ SettleOrphan(k, "resolved")

\* Timers fire and the calls that answer are answered.
Scheduled ==
    \/ SeekFire
    \/ PlayGoogle
    \/ PlayOpenaiNoKey
    \/ PlayOpenai
    \/ PlayBrowser
    \/ SettleResponsive

NextStuck ==
    \/ TogglePlayOn
    \/ \E index \in 0..(MaxSegs - 1) : SentenceClick(index)
    \/ Scheduled
    \/ SettleLate
    \/ \E k \in 1..MaxSources : SourceEnds(k)
    \/ EndedAfterStopFires

\* A due timer fires and a pending call that answers is answered by the event
\* loop; nothing obliges the user, the hung call or a sounding source.
SpecStuck == Init /\ [][NextStuck]_vars /\ WF_vars(Scheduled)

\* ---- the source language ----
\* onSettingsChange({sourceLanguage}) with another language: playSentence is
\* re-created, so the playback effect runs, and the source-language effect
\* calls handleFileUpload(currentFile, true) unless a parse or a translation
\* is running.  The silent call skips stopAudio, the clear of the cache and
\* the reset of playback; parsePdf will return the file's text segmented
\* for the new language, in n sentences.
SetSourceLanguage(n) ==
    /\ flight' = IF flight = << >>
                 THEN <<[op |-> "reparse", segs |-> Sentences(n), idx |-> None]>>
                 ELSE flight
    /\ playback' = playback
    /\ RunEffect(TRUE, effectTimer)
    /\ last' = Op("language", n)
    /\ intents < budget
    /\ intents' = intents + 1
    /\ session' = session
    /\ UNCHANGED <<segs, engine, openaiKey, cache, orphans, sources, endedQ,
                   seekTimers, budget, capacity, opLog>>

\* handleFileUpload(currentFile, true) after the await: setPdfData(data) and
\* nothing else; playSentence is re-created over the new segments.
ReparseDone(k) ==
    /\ k \in DOMAIN flight
    /\ flight[k].op = "reparse"
    /\ flight' = RemoveAt(flight, k)
    /\ segs' = flight[k].segs
    /\ playback' = playback
    /\ RunEffect(TRUE, effectTimer)
    /\ last' = Op("reparsed", Len(flight[k].segs))
    /\ NoIntent
    /\ UNCHANGED <<engine, openaiKey, cache, orphans, sources, endedQ, seekTimers,
                   budget, capacity, opLog>>

NextReparse ==
    \/ Next
    \/ PlayOutOfRange
    \/ \E n \in 1..MaxSegs : SetSourceLanguage(n)
    \/ \E k \in 1..MaxFlight : ReparseDone(k)
    \/ \E k \in 1..MaxFlight : FlightFails(k)

\* The App with a document parsed from a file, and the source-language
\* selector.
SpecReparse == Init /\ [][NextReparse]_vars

\* ----------------------------------------------------------------- claims
\* In the action formulas below last' describes the step: every action sets
\* it to its operation, index, synthesis calls and, for a promise that
\* settles, to whether it was a prefetch and to how many invocations it resumed.

\* The user has sought away from index i: the seek's stop has run and its
\* 50 ms timer for another index is pending, or the timer has just re-armed
\* playback at another index.
SeekedAway(i) ==
    \/ seekTimers # << >> /\ ~playback.isPlaying /\ Head(seekTimers) # i
    \/ seekTimers = << >> /\ last.op = "seek" /\ last.idx # i

\* C1 (stale discard on seek): when the awaited synthesis for index i
\* resolves after the user has sought to another index j - also inside the
\* window between the seek's stop and its re-arm at j - no source is started
\* and currentIndex is not changed by that resolution.
C1_StaleDiscardOnSeek ==
    [][(last'.op = "resolved" /\ last'.resumed > 0 /\ SeekedAway(last'.idx))
          => (sources' = sources /\ playback'.currentIndex = playback.currentIndex)]_vars

\* C2 (stop during loading): when stop() ran while a play request was
\* awaiting its synthesis and the synthesis then resolves, no source is
\* started and PlaybackState is left as it was (isPlaying = false).
C2_StopDuringLoading ==
    [][(last.op = "stop" /\ last'.op = "resolved" /\ last'.resumed > 0)
          => (sources' = sources /\ playback' = playback /\ ~playback'.isPlaying)]_vars

\* C3 (single audio device): in every reachable state at most one sound
\* source is sounding.
C3_SingleAudioDevice == Len(sources) <= 1

\* C4 (at most one in-flight synthesis per index): no step issues a synthesis
\* call for an index whose cache entry is pending or resolved, and a play
\* request for an index whose entry is pending is suspended on that entry.
C4_OneSynthesisPerIndex ==
    [][\A i \in 0..(MaxSegs - 1) :
          (has(cache, i) /\ Lookup(cache, i).st \in {"pending", "resolved"})
             => /\ i \notin last'.made
                /\ (last'.op = "playGoogle" /\ last'.idx = i
                       /\ Lookup(cache, i).st = "pending")
                      => /\ has(cache', i)
                         /\ Len(Lookup(cache', i).ws) = Len(Lookup(cache, i).ws) + 1
                         /\ [Lookup(cache', i) EXCEPT !.ws = << >>]
                               = [Lookup(cache, i) EXCEPT !.ws = << >>]]_vars

\* A play request found the pending prefetch of its index and awaits it,
\* without any new synthesis call.
C4_Witness ==
    /\ last.op = "playGoogle"
    /\ last.made = {}
    /\ has(cache, last.idx)
    /\ Lookup(cache, last.idx).wrapped
    /\ Lookup(cache, last.idx).st = "pending"
    /\ Lookup(cache, last.idx).ws # << >>

\* C5 (bounded cache): after any sequence of get, set, has, delete and clear
\* the cache holds at most `capacity` entries.
C5_BoundedCache == Len(cache) <= capacity

\* The keys accessed in the logged operations, least recently accessed first;
\* an access is a set or a get hit.
RECURSIVE Recency(_)
Recency(log) ==
    IF log = << >> THEN << >>
    ELSE LET r == Recency(SubSeq(log, 1, Len(log) - 1))
             e == log[Len(log)]
         IN IF e.op = "set" \/ (e.op = "get" /\ e.hit)
            THEN Append(SelectSeq(r, LAMBDA x : x # e.key), e.key)
            ELSE r

MostRecent(r, n) == SubSeq(r, IF Len(r) > n THEN Len(r) - n + 1 ELSE 1, Len(r))

CacheKeys == [k \in DOMAIN cache |-> cache[k].key]

\* A set on a full cache of a key it did not hold: more keys were accessed
\* than the cache has room for.
C5_Witness ==
    /\ last.op = "set"
    /\ ~opLog[Len(opLog)].hit
    /\ Len(Recency(opLog)) > capacity
    /\ Len(cache) = capacity

\* C6 (LRU retention): as long as nothing was deleted, the cache holds
\* exactly the `capacity` most recently accessed keys (all of them while
\* there are fewer), oldest access first; once more than `capacity` distinct
\* keys were accessed it holds exactly `capacity` entries; and with capacity
\* 2, inserting 0, 1, 2 leaves {1, 2}.
C6_LRURetention ==
    (\A k \in DOMAIN opLog : opLog[k].op # "delete")
       => /\ CacheKeys = MostRecent(Recency(opLog), capacity)
          /\ Len(Recency(opLog)) > capacity => Len(cache) = capacity
          /\ (capacity = 2
                /\ [k \in DOMAIN opLog |-> <<opLog[k].op, opLog[k].key>>]
                      = << <<"set", 0>>, <<"set", 1>>, <<"set", 2>> >>)
                => Keys(cache) = {1, 2}

\* Capacity 2: set 0, set 1, a get hit on 0, set 2.  Key 1 was evicted, not 0.
C6_Witness ==
    /\ capacity = 2
    /\ [k \in DOMAIN opLog |-> <<opLog[k].op, opLog[k].key>>]
          = << <<"set", 0>>, <<"set", 1>>, <<"get", 0>>, <<"set", 2>> >>
    /\ CacheKeys = <<0, 2>>

\* C7 (failure removes the entry): once a failed synthesis has been handled
\* the cache holds no entry for it, i.e. the cache never holds a rejected
\* promise.
C7_FailureRemovesEntry == \A k \in DOMAIN cache : cache[k].val.st # "rejected"

\* C8 (retry after an active-index failure): a play request at index i that
\* comes after the synthesis for i failed issues a fresh synthesis call for i;
\* it is not answered from the failed outcome the cache holds.
C8_RetryAfterFailure ==
    [][(last'.op = "playGoogle" /\ has(cache, last'.idx)
           /\ Lookup(cache, last'.idx).st = "rejected")
          => last'.idx \in last'.made]_vars

\* C9 (active versus stale failure): when a synthesis that a play request
\* awaits fails, isPlaying and isLoading become false if the index is still
\* the active one, and otherwise no field of PlaybackState changes.
C9_ActiveVersusStaleFailure ==
    [][(last'.op \in {"rejected", "playfail"} /\ last'.resumed > 0)
          => IF activeIndexRef = last'.idx
             THEN ~playback'.isPlaying /\ ~playback'.isLoading
             ELSE playback' = playback]_vars

\* The awaited synthesis of an index the user has left failed while playback
\* goes on elsewhere.
C9_Witness ==
    /\ last.op = "rejected"
    /\ last.resumed > 0
    /\ ~last.wrapped
    /\ activeIndexRef # last.idx
    /\ playback.isPlaying

\* C10 (prefetch failures are isolated): the failure of a prefetch for an
\* index that is not the active one leaves PlaybackState and the sounding
\* sources unchanged and removes exactly the cache entry of that index.
C10_PrefetchFailureIsolated ==
    [][(last'.op = "rejected" /\ last'.wrapped /\ activeIndexRef # last'.idx)
          => /\ playback' = playback
             /\ sources' = sources
             /\ cache' = SelectSeq(cache, LAMBDA e : e.key # last'.idx)]_vars

\* A prefetch failed while the active sentence is sounding.
C10_Witness ==
    /\ last.op = "rejected"
    /\ last.wrapped
    /\ activeIndexRef # last.idx
    /\ playback.isPlaying
    /\ sources # << >>
    /\ ~has(cache, last.idx)

\* C11: End of sequence.  A step that runs advance (playNext: the completion
\* of a source, or the skip of an empty segment) from the last index leaves
\* isPlaying = FALSE and currentIndex = 0; from an index in range it never
\* leaves currentIndex >= length; and it never sets isPlaying.
Advances == last'.op \in {"ended", "endedStopped", "playEmpty"}

C11_EndOfSequence ==
    [][(Advances /\ InRange(playback.currentIndex)) =>
          /\ (playback.currentIndex = Len(segs) - 1 =>
                 ~playback'.isPlaying /\ playback'.currentIndex = 0)
          /\ playback'.currentIndex < Len(segs)
          /\ (~playback.isPlaying => ~playback'.isPlaying)]_vars

\* C12: Empty-skip.  No step sends the text of an empty segment to a backend
\* (tone inference and synthesis, the cloud-plain fetch, a local utterance),
\* neither for the index played nor for a prefetched one; and playSentence on
\* an empty segment advances to the next index and starts no source.
C12_EmptySkip ==
    [][/\ \A i \in last'.sent : segs[i + 1] # 0
       /\ last'.op = "playEmpty" =>
             /\ last'.sent = {} /\ last'.made = {}
             /\ sources' = sources /\ cache' = cache /\ orphans' = orphans
             /\ playback'.currentIndex =
                   (IF last'.idx + 1 < Len(segs) THEN last'.idx + 1 ELSE 0)]_vars

\* An empty segment was skipped and the next one was played, with the empty
\* segment after it left out of the prefetch.
C12_Witness ==
    /\ last.op = "playGoogle"
    /\ last.idx >= 1
    /\ segs[last.idx] = 0
    /\ last.idx + 1 < Len(segs)
    /\ segs[last.idx + 2] = 0
    /\ last.sent = {last.idx}

\* C13: Play-through liveness.  Playing from the start with no further input,
\* with requests that resolve and sources that end by themselves,
\* currentIndex only moves from i to i + 1, or from the last index to 0 with
\* isPlaying = FALSE; every index of the document is reached; and eventually
\* the player is idle for good with isPlaying = FALSE and currentIndex = 0.
Idle == ~playback.isPlaying /\ sources = << >> /\ effectTimer = None

C13_PlayThrough ==
    /\ [][playback'.currentIndex # playback.currentIndex =>
             \/ playback'.currentIndex = playback.currentIndex + 1
             \/ /\ playback.currentIndex = Len(segs) - 1
                /\ playback'.currentIndex = 0
                /\ ~playback'.isPlaying]_vars
    /\ \A i \in 0..(MaxSegs - 1) : <>(i >= Len(segs) \/ playback.currentIndex = i)
    /\ <>[](Idle /\ playback.currentIndex = 0)

\* A document of empty and non-empty segments was played to its end.
C13_Witness ==
    /\ Idle
    /\ playback.currentIndex = 0
    /\ last.op = "ended"
    /\ last.idx = Len(segs) - 1
    /\ \E i \in DOMAIN segs : segs[i] = 0

\* C14: Ordering of audio starts.  Within one playback session (from a play
\* or a seek until the next stop or seek) no step starts the audio of index i
\* once the audio of index i + 1 has started.
C14_StartOrder ==
    [][\A i \in Started : (i + 1) \notin session]_vars

\* C15: No playing state at the sentinel.  Under toggle, seek, stop, document
\* replacement, transcription append, translation and the completion
\* callbacks, no reachable state has isPlaying = TRUE with currentIndex = -1.
C15_NoPlayingAtSentinel == ~(playback.isPlaying /\ playback.currentIndex = -1)

\* Play was pressed while the replacement document was being parsed, when
\* currentIndex was -1.
C15_Witness ==
    /\ last.op = "toggle"
    /\ intents = 2
    /\ \E k \in DOMAIN flight : flight[k].op = "parse"
    /\ playback.isPlaying
    /\ playback.currentIndex = 0

\* C16: stop() postcondition and frame.  In every state, a stop() step leaves
\* no sound source sounding, leaves isPlaying = FALSE, isLoading = FALSE and
\* no tone label, and changes neither currentIndex nor the cache.
C16_StopPostcondition ==
    [][last'.op = "stop" =>
          /\ sources' = << >>
          /\ ~playback'.isPlaying
          /\ ~playback'.isLoading
          /\ playback'.detectedEmotion = "none"
          /\ playback'.currentIndex = playback.currentIndex
          /\ cache' = cache]_vars

\* C17: stop() is idempotent and safe when idle.  As stated: a stop() step
\* taken when nothing is playing (isPlaying = FALSE, no source sounding)
\* changes nothing, and a stop() step that follows a stop() step changes
\* nothing.
NothingPlaying == ~playback.isPlaying /\ sources = << >>

StopFrame ==
    UNCHANGED <<segs, flight, engine, openaiKey, activeIndexRef, cache, orphans,
                sources, endedQ, effectTimer, seekTimers>>

C17_StopWhenIdle ==
    [][/\ (last'.op = "stop" /\ NothingPlaying) => (StopFrame /\ playback' = playback)
       /\ (last'.op = "stop" /\ last.op = "stop") => (StopFrame /\ playback' = playback)]_vars

\* C17, amended: a stop() step taken when nothing is playing changes nothing
\* but isLoading and the tone label, which it clears; a stop() step that
\* follows a stop() step changes nothing.
C17_StopIdempotent ==
    [][/\ (last'.op = "stop" /\ NothingPlaying) =>
             /\ StopFrame
             /\ playback' = [playback EXCEPT !.isLoading = FALSE,
                                             !.detectedEmotion = "none"]
       /\ (last'.op = "stop" /\ last.op = "stop") => (StopFrame /\ playback' = playback)]_vars

\* stop() was pressed twice in a row after playback had been started.
C17_Witness ==
    /\ last.op = "stop"
    /\ intents = 3
    /\ orphans # << >> \/ cache # << >>
    /\ NothingPlaying

\* C18: seek(i) is stop followed by play at i.  The click step performs stop()
\* (isPlaying = FALSE in the state it leaves) and only arms the deferred step;
\* the deferred step sets isPlaying = TRUE, isLoading = FALSE, currentIndex = i
\* and leaves activeIndexRef = i; and every step in which playSentence sends a
\* request for an index is taken with activeIndexRef equal to that index.
C18_SeekIsStopThenPlay ==
    [][/\ last'.op = "click" =>
             /\ ~playback'.isPlaying
             /\ ~playback'.isLoading
             /\ playback'.currentIndex = playback.currentIndex
             /\ seekTimers' = Append(seekTimers, last'.idx)
       /\ last'.op = "seek" =>
             /\ seekTimers # << >>
             /\ last'.idx = Head(seekTimers)
             /\ playback'.isPlaying
             /\ ~playback'.isLoading
             /\ playback'.currentIndex = last'.idx
             /\ activeIndexRef' = last'.idx
       /\ last'.sent # {} =>
             /\ activeIndexRef = last'.idx
             /\ playback.currentIndex = last'.idx]_vars

\* The only user input was a click on sentence 1, and playSentence(1) has
\* sent its request.
C18_Witness ==
    /\ last.op = "playGoogle"
    /\ last.idx = 1
    /\ 1 \in last.sent
    /\ intents = 1
    /\ activeIndexRef = 1
    /\ session = {}

\* C19: Cache cleared on configuration change.  A step that changes the
\* engine setting or the google voice setting leaves the cache empty, so the
\* next lookup or synthesis request finds no entry made under the previous
\* setting; and a lookup that hits returns an entry that was in the cache
\* before the step, never one that a clear had removed.
C19_ClearedOnConfigChange ==
    [][/\ (engine' # engine \/ last'.op \in {"engine", "voice"}) => cache' = << >>
       /\ (last'.op = "playGoogle" /\ last'.idx \notin last'.made) =>
             \E k \in DOMAIN cache : cache[k].key = last'.idx]_vars

\* The voice was changed while syntheses were pending in the cache.
C19_Witness ==
    /\ last.op = "voice"
    /\ cache = << >>
    /\ orphans # << >>

\* C20: Document replaced is a full reset.  The step that requests a document
\* replacement leaves no source sounding, the cache empty and PlaybackState
\* isPlaying = FALSE, isLoading = FALSE, currentIndex = -1; and while the
\* replacement is being parsed currentIndex stays at -1 until the step that
\* installs the new segments.
Replacing == \E k \in DOMAIN flight : flight[k].op = "parse"

C20_ReplacementResets ==
    [][/\ last'.op = "upload" =>
             /\ sources' = << >>
             /\ cache' = << >>
             /\ ~playback'.isPlaying
             /\ ~playback'.isLoading
             /\ playback'.currentIndex = -1
       /\ (Replacing /\ playback.currentIndex = -1 /\ playback'.currentIndex # -1)
             => last'.op = "parsed"]_vars

\* C21: Toggle.  On a non-empty document a toggle step taken in a stopped
\* state sets isPlaying and keeps currentIndex, with -1 becoming 0, and
\* touches nothing else; a toggle step taken in a playing state does what
\* stop() does; on an empty document a toggle step changes nothing.
ToggleFrame ==
    UNCHANGED <<segs, flight, engine, openaiKey, cache, orphans, seekTimers>>

C21_Toggle ==
    [][/\ last'.op = "toggle" =>
             /\ Len(segs) # 0 /\ ~playback.isPlaying
             /\ playback'.isPlaying
             /\ playback'.currentIndex =
                   (IF playback.currentIndex = -1 THEN 0 ELSE playback.currentIndex)
             /\ playback'.isLoading = playback.isLoading
             /\ playback'.detectedEmotion = playback.detectedEmotion
             /\ sources' = sources /\ endedQ' = endedQ
             /\ ToggleFrame
       /\ last'.op = "toggleOff" =>
             /\ Len(segs) # 0 /\ playback.isPlaying
             /\ playback' = [isPlaying |-> FALSE, isLoading |-> FALSE,
                             currentIndex |-> playback.currentIndex,
                             detectedEmotion |-> "none"]
             /\ \A k \in DOMAIN sources' : ~sources'[k].held
             /\ \A k \in DOMAIN sources' : sources'[k].kind # "utterance"
             /\ effectTimer' = None
             /\ ToggleFrame
       /\ last'.op = "toggleEmpty" =>
             /\ Len(segs) = 0
             /\ UNCHANGED <<playback, sources, endedQ, activeIndexRef, effectTimer>>
             /\ ToggleFrame]_vars

\* Play was toggled on at index 0 and toggled off again while the buffer
\* source of the sentence was sounding.
C21_Witness ==
    /\ last.op = "toggleOff"
    /\ intents = 2
    /\ last.idx = 0
    /\ endedQ # << >>
    /\ ~playback.isPlaying

\* C22: Eager prefetch horizon.  In the step in which playSentence(i) of the
\* google engine issues or finds the synthesis for i, processGeminiSentence
\* is called for each of i + 1 and i + 2 that is below the length and has no
\* cache entry - and, where the segment has text, its request is sent and its
\* pending promise is in the cache - before the promise for i is awaited; and
\* no step issues a request for an index >= length.
Cached(j) == \E k \in DOMAIN cache : cache[k].key = j

C22_PrefetchHorizon ==
    [][/\ last'.op = "playGoogle" =>
             \A j \in {last'.idx + 1, last'.idx + 2} :
                (j < Len(segs) /\ ~Cached(j)) =>
                    /\ j \in last'.made
                    /\ segs[j + 1] # 0 =>
                          /\ j \in last'.sent
                          /\ \E k \in DOMAIN cache' :
                                cache'[k].key = j /\ cache'[k].val.st = "pending"
       /\ \A j \in last'.sent \cup last'.made : 0 <= j /\ j < Len(segs)]_vars

\* playSentence(0) found its synthesis pending in the cache and issued the
\* request for sentence 2, the only one of the horizon not yet cached.
C22_Witness ==
    /\ last.op = "playGoogle"
    /\ last.idx = 0
    /\ last.sent = {2}
    /\ Len(cache) = 3

\* C23: Out-of-range rejection.  A playSentence step for an index below 0 or
\* at or above the length sends no request, touches no sound source, inserts
\* nothing into the cache and changes no field of PlaybackState; and every
\* other playSentence step is taken for an index in range.
C23_OutOfRangeRejected ==
    [][/\ last'.op = "playNone" =>
             /\ last'.idx < 0 \/ last'.idx >= Len(segs)
             /\ last'.sent = {} /\ last'.made = {}
             /\ UNCHANGED <<playback, sources, endedQ, cache, orphans, activeIndexRef>>
       /\ last'.op \in {"playGoogle", "playOpenai", "playNoKey", "playBrowser",
                        "playEmpty"} =>
             (0 <= last'.idx /\ last'.idx < Len(segs))]_vars

\* playSentence ran, while playing, for an index that the installed document
\* does not have, and returned.
C23_Witness ==
    /\ last.op = "playNone"
    /\ last.idx >= Len(segs)
    /\ playback.isPlaying
    /\ playback.currentIndex = last.idx
    /\ effectTimer = None

\* C24: Loading while unresolved.  The step in which playSentence(i) comes to
\* await a pending synthesis for the active index - one it created, or a
\* prefetch it found in the cache - leaves isLoading = TRUE, and isLoading
\* then goes back to FALSE only in a step that settles a synthesis or in a
\* stop, a seek or another user intent.
AwaitsPending ==
    \/ last'.op = "playOpenai"
    \/ /\ last'.op = "playGoogle"
       /\ \E k \in DOMAIN cache' :
             /\ cache'[k].key = last'.idx
             /\ cache'[k].val.st = "pending"
             /\ cache'[k].val.ws # << >>

C24_LoadingWhileUnresolved ==
    [][/\ AwaitsPending => playback'.isLoading
       /\ (playback.isLoading /\ ~playback'.isLoading) =>
             \/ last'.op \in {"resolved", "rejected", "playfail", "seek"}
             \/ intents' # intents]_vars

\* C25: Evicted or cleared entries are inert.  When a google synthesis that
\* clear() or an eviction removed from the cache while it was pending is
\* fulfilled, the cache is left as it is, and no source is started and
\* PlaybackState is unchanged, unless that synthesis is the one the active
\* play request awaits: the latest playSentence of the active index is
\* suspended on it, and not on a newer synthesis held by the cache.
OrphanResolves(k) ==
    /\ last'.op = "resolved"
    /\ last'.removed
    /\ orphans[k].kind = "google"
    /\ orphans[k].idx = last'.idx
    /\ Len(orphans[k].ws) = last'.resumed
    /\ orphans' = RemoveAt(orphans, k)

AwaitedByActive(pr) ==
    /\ pr.ws # << >>
    /\ pr.idx = activeIndexRef
    /\ ~\E j \in DOMAIN cache : cache[j].key = activeIndexRef /\ cache[j].val.ws # << >>

C25_RemovedEntriesInert ==
    [][\A k \in DOMAIN orphans :
          OrphanResolves(k) =>
             /\ cache' = cache
             /\ ~AwaitedByActive(orphans[k]) =>
                   sources' = sources /\ playback' = playback]_vars

\* C26: Seek to page.  handleNavigate(p) on a page that has an entry in the
\* page mapping does exactly what a seek to that entry does: it stops the
\* sounding sources, writes the stopped PlaybackState and arms the 50 ms
\* timer for the entry, which then plays it as the timer of a seek does; on a
\* page without an entry it stops nothing and leaves PlaybackState, the
\* timers, the cache and the sources as they are.
NavigateFrame == UNCHANGED <<segs, flight, engine, openaiKey, cache, orphans>>

\* What the step of a seek to last'.idx does.
SeekStep ==
    /\ playback' = [playback EXCEPT !.isPlaying = FALSE, !.isLoading = FALSE,
                                     !.detectedEmotion = "none"]
    /\ \A k \in DOMAIN sources' : ~sources'[k].held
    /\ Len(sources') = Len(SelectSeq(sources, LAMBDA s : s.kind # "utterance" /\ ~s.held))
    /\ seekTimers' = Append(seekTimers, last'.idx)
    /\ effectTimer' = IF playback.isPlaying THEN None ELSE effectTimer
    /\ activeIndexRef' = activeIndexRef
    /\ NavigateFrame

C26_SeekToPage ==
    [][/\ last'.op = "click" => SeekStep
       /\ last'.op = "navigate" =>
             IF last'.idx = NoPage
             THEN /\ UNCHANGED <<playback, sources, endedQ, seekTimers, activeIndexRef,
                                 effectTimer>>
                  /\ NavigateFrame
             ELSE SeekStep]_vars

\* Play was pressed at one sentence and a page that begins at another
\* sentence is navigated to: playback is stopped and the timer for the page's
\* first sentence is armed.
C26_Witness ==
    /\ last.op = "navigate"
    /\ last.idx # NoPage
    /\ seekTimers = <<last.idx>>
    /\ ~playback.isPlaying
    /\ activeIndexRef # last.idx
    /\ activeIndexRef >= 0

\* C27: Device failure stops playback.  When the device reports an error for
\* the one source that is sounding (the audio element's error event, or an
\* utterance error other than 'interrupted' and 'canceled'), the step leaves
\* isPlaying = FALSE and isLoading = FALSE with currentIndex as it was; the
\* 'interrupted' or 'canceled' error of an utterance that the scheduler itself
\* canceled changes neither PlaybackState nor the sources, the timers or
\* the cache.
C27_DeviceFailureStops ==
    [][/\ (last'.op \in {"audioError", "utteranceError"} /\ Len(sources) = 1) =>
             /\ ~playback'.isPlaying
             /\ ~playback'.isLoading
             /\ playback'.currentIndex = playback.currentIndex
       /\ last'.op = "interrupted" =>
             UNCHANGED <<playback, sources, endedQ, seekTimers, effectTimer,
                         activeIndexRef, cache, orphans>>]_vars

\* C28: A stuck backend does not block seeking.  While the play request for
\* the active index awaits a synthesis that does not settle, and no user
\* intent or seek timer is due, the state stays isPlaying = TRUE at that index with no
\* source sounding; once a seek from that state has re-armed playback at
\* another index j with the synthesis still pending, a source for j is
\* eventually started unless the user acts again first;
\* and when the hung synthesis is fulfilled after the re-arm, no source is
\* started and PlaybackState is left as it is.
Stalled ==
    /\ playback.isPlaying
    /\ activeIndexRef = playback.currentIndex
    /\ sources = << >>
    /\ endedQ = << >>
    /\ seekTimers = << >>
    /\ \/ \E k \in DOMAIN cache :
             /\ Stuck(cache[k].val) /\ cache[k].val.st = "pending"
             /\ cache[k].val.ws # << >> /\ cache[k].key = activeIndexRef
       \/ \E k \in DOMAIN orphans :
             /\ Stuck(orphans[k]) /\ orphans[k].kind = "openai"
             /\ orphans[k].ws # << >> /\ orphans[k].idx = activeIndexRef

StuckPending ==
    \/ \E k \in DOMAIN cache :
          Stuck(cache[k].val) /\ cache[k].val.st = "pending" /\ cache[k].val.ws # << >>
    \/ \E k \in DOMAIN orphans : Stuck(orphans[k]) /\ orphans[k].ws # << >>

Rearmed(j) ==
    /\ last.op = "seek"
    /\ last.idx = j
    /\ StuckPending
    /\ InRange(j)
    /\ sources = << >>
    /\ endedQ = << >>
    /\ seekTimers = << >>

UserActs == last.op \in {"toggle", "click"}

C29_NoDoubleStart ==
    [][(/\ last'.op = "resolved"
        /\ last'.resumed = 2
        /\ last'.idx = activeIndexRef
        /\ playback.isPlaying
        /\ playback.currentIndex = activeIndexRef)
          => Len(SelectSeq(sources', LAMBDA s : s.idx = last'.idx))
                = Len(SelectSeq(sources, LAMBDA s : s.idx = last'.idx)) + 1]_vars

\* C30: Document replacement invalidates in-flight results.  When a google
\* synthesis that a play request of the old document awaits, and that the
\* replacement removed from the cache while it was pending, is fulfilled
\* during the parse of the new document or right after its installation, no
\* source is started and currentIndex is not changed.
C30_ReplacementInvalidates ==
    [][\A k \in DOMAIN orphans :
          (/\ OrphanResolves(k)
           /\ orphans[k].ws # << >>
           /\ \/ \E f \in DOMAIN flight : flight[f].op = "parse"
              \/ last.op = "parsed")
          => /\ sources' = sources
             /\ playback'.currentIndex = playback.currentIndex]_vars

\* C31: Quiescence debounce.  When currentIndex or isPlaying changes while
\* the 10 ms timer of an earlier change is still pending, that timer is
\* cancelled: the only timer left is the one for the new currentIndex, and
\* none when playback is off.  So playSentence runs only for the index that
\* is current when its timer fires, and a step of playSentence asks for the
\* synthesis of that index and of the two after it, and of no other.
PlayOps == {"playNone", "playEmpty", "playGoogle", "playNoKey", "playOpenai", "playBrowser"}

C31_QuiescenceDebounce ==
    [][/\ (/\ effectTimer # None
           /\ \/ playback'.currentIndex # playback.currentIndex
              \/ playback'.isPlaying # playback.isPlaying)
          => effectTimer' = IF playback'.isPlaying THEN playback'.currentIndex ELSE None
       /\ last'.op \in PlayOps =>
             /\ playback.isPlaying
             /\ last'.idx = playback.currentIndex
             /\ last'.made \subseteq last'.idx..(last'.idx + 2)]_vars

\* The `ended` event of a stopped source has moved currentIndex from 1 to 2
\* while the timer for index 1 was pending: the timer is now the one for
\* index 2, and playSentence(1) never ran - nothing awaits a synthesis for
\* index 1, the only entries for it are prefetches, and no source of it sounds.
C31_Witness ==
    /\ last.op = "endedStopped"
    /\ playback.isPlaying
    /\ playback.currentIndex = 2
    /\ effectTimer = 2
    /\ activeIndexRef = 2
    /\ \A k \in DOMAIN sources : sources[k].idx # 1
    /\ \A k \in DOMAIN cache : cache[k].key = 1 => cache[k].val.wrapped /\ cache[k].val.ws = << >>
    /\ \A k \in DOMAIN orphans : orphans[k].idx # 1

\* C32: Only natural completion advances.  The `ended` event delivered for a
\* source that stop(), a seek or the stop-before-play of a newer play
\* request has stopped does not change currentIndex; and while isPlaying is
\* FALSE, currentIndex changes only in the step of a seek timer, of a
\* document replacement, of a translation or of a transcription append.
C32_OnlyNaturalCompletionAdvances ==
    [][/\ last'.op = "endedStopped" => playback'.currentIndex = playback.currentIndex
       /\ (~playback.isPlaying /\ playback'.currentIndex # playback.currentIndex)
             => last'.op \in {"seek", "upload", "parsed", "translated", "transcribed"}]_vars

\* C33: Playing index is in range.  In every reachable state with
\* isPlaying = TRUE, 0 <= currentIndex < Len(segs) - also after a document
\* was replaced by a shorter or empty one and after a seek timer fired
\* following a replacement.
C33_PlayingIndexInRange ==
    playback.isPlaying =>
       (0 <= playback.currentIndex /\ playback.currentIndex < Len(segs))

\* C34: No silent stall.  The player never rests with isPlaying = TRUE and
\* nothing left that could start a source or clear isPlaying: in every
\* reachable state with isPlaying = TRUE a synthesis is pending, or a source
\* is sounding, or a timer or a queued media event is due, or a document
\* operation is in flight.
PendingSynthesis ==
    \/ \E k \in DOMAIN cache : cache[k].val.st = "pending"
    \/ orphans # << >>

C34_NoSilentStall ==
    playback.isPlaying =>
       \/ PendingSynthesis
       \/ sources # << >>
       \/ effectTimer # None
       \/ seekTimers # << >>
       \/ endedQ # << >>
       \/ flight # << >>

\* C35: A stale failure does not remove a fresh entry.  When a prefetch
\* synthesis that clear() or an eviction removed from the cache while it was
\* pending fails after a new entry was created for its index, the new entry
\* is still in the cache after the failure.
OrphanFails(k) ==
    /\ last'.op = "rejected"
    /\ last'.removed
    /\ last'.wrapped
    /\ orphans[k].kind = "google"
    /\ orphans[k].wrapped
    /\ orphans[k].idx = last'.idx
    /\ Len(orphans[k].ws) = last'.resumed

C35_StaleFailureKeepsFreshEntry ==
    [][\A k \in DOMAIN orphans :
          OrphanFails(k) =>
             \A j \in DOMAIN cache :
                cache[j].key = orphans[k].idx =>
                   \E i \in DOMAIN cache' : cache'[i].key = cache[j].key]_vars

\* A step that installs a new or re-segmented sequence: the completion of a
\* parse, of a silent re-parse or of a translation.
Installs == last'.op \in {"parsed", "reparsed", "translated"} /\ segs' # segs

\* C36: cache entries match the current segments: every cache entry's index
\* is an index of the current sequence, and a step that installs a new or
\* re-segmented sequence (upload, silent re-parse, translation) leaves no
\* entry in the cache, every entry present at that step having been produced
\* from the previous text.
C36_CacheMatchesSegments ==
    /\ [](Keys(cache) \subseteq 0..(Len(segs) - 1))
    /\ [][Installs => cache' = << >>]_vars


\* Pending synthesis k, made under a setting that has since been changed,
\* is fulfilled: a google synthesis that the clear-cache effect removed from
\* the cache (with a document at rest nothing else empties the cache), or a
\* synthesis of an engine that is no longer the selected one.  An invocation
\* of playSentence for the active index is suspended on it.
SupersededResolves(k) ==
    /\ last'.op = "resolved"
    /\ last'.removed = (orphans[k].kind = "google")
    /\ orphans[k].idx = last'.idx
    /\ Len(orphans[k].ws) = last'.resumed
    /\ orphans' = RemoveAt(orphans, k)
    /\ orphans[k].kind = "google" \/ orphans[k].kind # engine
    /\ orphans[k].ws # << >>
    /\ orphans[k].idx = activeIndexRef

\* C37: No audio from a superseded configuration.  When the synthesis that
\* the play request of the active index awaits was made before a change of
\* the engine or of the voice and is fulfilled after it, the step starts no
\* sound source and writes no tone label.
C37_NoAudioFromSupersededSetting ==
    [][\A k \in DOMAIN orphans :
          SupersededResolves(k) =>
             /\ Len(sources') <= Len(sources)
             /\ playback'.detectedEmotion = playback.detectedEmotion]_vars


\* C38: Loading implies playing.  In every reachable state isLoading implies
\* isPlaying; so every step that leaves isPlaying false (stop, a failure,
\* the end of the sequence, a new document) leaves isLoading false as well.
C38_LoadingImpliesPlaying == playback.isLoading => playback.isPlaying


\* Source k narrates the last segment of the sequence it was started over,
\* the segment is the current one, and a transcription has just appended
\* segments to the sequence.
AppendedWhileSounding(k) ==
    /\ last.op = "transcribed"
    /\ sources[k].idx = sources[k].len - 1
    /\ sources[k].len < Len(segs)
    /\ playback.currentIndex = sources[k].idx
    /\ playback.isPlaying

\* C39: Appends are seen by advance.  When segments were appended while the
\* last segment of the old sequence is sounding, the natural completion of
\* that segment moves currentIndex to the first appended segment and keeps
\* isPlaying: playNext compares with the length of the sequence at the time
\* of the completion.
C39_AppendsSeenByAdvance ==
    [][\A k \in DOMAIN sources :
          (/\ AppendedWhileSounding(k)
           /\ last'.op = "ended"
           /\ last'.idx = sources[k].idx
           /\ sources' = RemoveAt(sources, k))
          => /\ playback'.currentIndex = sources[k].len
             /\ playback'.isPlaying]_vars


====
